---- MODULE Spec2Model ----
(***************************************************************************)
(* plot_dc_analysis.py: a script that loads dc_analysis_results.csv into a *)
(* pandas DataFrame, draws two panels, computes a normalised theoretical   *)
(* curve and an efficiency percentage, saves the figure, prints a          *)
(* confirmation line and shows the figure.                                 *)
(*                                                                         *)
(* The DataFrame columns are numpy int64 / float64.  Every arithmetic      *)
(* operation of the script is an IEEE-754 binary64 operation (round to     *)
(* nearest, ties to even), modelled here bit-exactly on a 53-bit           *)
(* significand held in limbs of 15 bits.  All values of the model are      *)
(* non-negative and far from the overflow and subnormal ranges.            *)
(***************************************************************************)
EXTENDS Integers, Sequences, FiniteSets, TLC

(***************************************************************************)
(* Natural numbers of up to 120 bits: tuples of 8 limbs, least significant *)
(* first, each limb in 0..Base-1.                                          *)
(***************************************************************************)
Base == 2^15

Limbs == 1..8

BZero == <<0, 0, 0, 0, 0, 0, 0, 0>>

BN(n) == <<n % Base, (n \div Base) % Base, n \div (Base * Base), 0, 0, 0, 0, 0>>

BTup(x) == <<x[1], x[2], x[3], x[4], x[5], x[6], x[7], x[8]>>

BTop(x) == IF \A i \in Limbs : x[i] = 0 THEN 0
           ELSE CHOOSE i \in Limbs : x[i] # 0 /\ \A j \in Limbs : j > i => x[j] = 0

RECURSIVE AddC(_, _, _, _)
AddC(x, y, i, c) ==
    IF i > 8 THEN <<>>
    ELSE LET s == x[i] + y[i] + c
         IN  <<s % Base>> \o AddC(x, y, i + 1, s \div Base)

BAdd(x, y) == AddC(x, y, 1, 0)

RECURSIVE SubC(_, _, _, _)
SubC(x, y, i, b) ==
    IF i > 8 THEN <<>>
    ELSE LET d == x[i] - y[i] - b
         IN  IF d < 0 THEN <<d + Base>> \o SubC(x, y, i + 1, 1)
                      ELSE <<d>> \o SubC(x, y, i + 1, 0)

\* x - y for x >= y
BSub(x, y) == SubC(x, y, 1, 0)

\* -1, 0, 1 as x < y, x = y, x > y
BCmp(x, y) ==
    IF x = y THEN 0
    ELSE LET i == CHOOSE k \in Limbs :
                      x[k] # y[k] /\ \A j \in Limbs : j > k => x[j] = y[j]
         IN  IF x[i] < y[i] THEN -1 ELSE 1

RECURSIVE MulC(_, _, _, _)
MulC(x, k, i, c) ==
    IF i > 8 THEN <<>>
    ELSE LET p == x[i] * k + c
         IN  <<p % Base>> \o MulC(x, k, i + 1, p \div Base)

\* x * k for a single limb k
BMulSmall(x, k) == MulC(x, k, 1, 0)

RECURSIVE DivC(_, _, _, _)
DivC(x, d, i, r) ==
    IF i = 0 THEN <<>>
    ELSE LET cur == r * Base + x[i]
         IN  DivC(x, d, i - 1, cur % d) \o <<cur \div d>>

\* x \div d for a single limb d
BDivSmall(x, d) == DivC(x, d, 8, 0)

BUp(x, n) == [i \in Limbs |-> IF i - n >= 1 THEN x[i - n] ELSE 0]

BDown(x, n) == [i \in Limbs |-> IF i + n <= 8 THEN x[i + n] ELSE 0]

\* x * 2^k
BShl(x, k) == BMulSmall(BUp(x, k \div 15), 2^(k % 15))

\* x \div 2^k
BShr(x, k) == BDivSmall(BDown(x, k \div 15), 2^(k % 15))

RECURSIVE MulAcc(_, _, _)
MulAcc(x, y, j) ==
    IF j > 4 THEN BZero
    ELSE IF y[j] = 0 THEN MulAcc(x, y, j + 1)
    ELSE BAdd(BUp(BMulSmall(x, y[j]), j - 1), MulAcc(x, y, j + 1))

\* x * y for x, y < 2^60
BMul(x, y) == MulAcc(x, y, 1)

BitLenSmall(n) == CHOOSE b \in 1..15 : 2^(b - 1) <= n /\ n < 2^b

\* the number of bits of x (0 for 0)
BitLen(x) == LET t == BTop(x)
             IN  IF t = 0 THEN 0 ELSE 15 * (t - 1) + BitLenSmall(x[t])

BOdd(x) == x[1] % 2 = 1

\* the value of x as an integer, for x < 2^30
BInt(x) == x[1] + Base * x[2]

(***************************************************************************)
(* binary64 values: zero, a normal number m * 2^e with 2^52 <= m < 2^53,   *)
(* +inf, or NaN.                                                           *)
(***************************************************************************)
Inf == [k |-> "inf"]

NaN == [k |-> "nan"]

FZero == [k |-> "fin", m |-> BZero, e |-> 0]

IsZero(a) == a.k = "fin" /\ a.m = BZero

\* round-to-nearest-even of n * 2^e (plus a positive amount below one unit
\* of n when sticky) to a 53-bit significand
FRound(n, e, sticky) ==
    LET len == BitLen(n)
    IN  IF len = 0 THEN FZero
        ELSE IF len <= 53
        THEN [k |-> "fin", m |-> BTup(BShl(n, 53 - len)), e |-> e - (53 - len)]
        ELSE LET s    == len - 53
                 q    == BShr(n, s)
                 rem  == BSub(n, BShl(q, s))
                 half == BShl(BN(1), s - 1)
                 c    == BCmp(rem, half)
                 up   == c > 0 \/ (c = 0 /\ (sticky \/ BOdd(q)))
                 m1   == IF up THEN BAdd(q, BN(1)) ELSE q
             IN  IF BitLen(m1) = 54
                 THEN [k |-> "fin", m |-> BTup(BShr(m1, 1)), e |-> e + s + 1]
                 ELSE [k |-> "fin", m |-> BTup(m1), e |-> e + s]

\* int64 -> float64 (exact below 2^53)
FInt(n) == FRound(BN(n), 0, FALSE)

\* the next quotient limb of r * Base / d, for r < d and d[4] >= Base / 2:
\* estimated from the leading limbs, at most two too large (Knuth's
\* algorithm D), then corrected
QDigit(rb, d) ==
    LET est == (rb[5] * Base + rb[4]) \div d[4]
        hat == IF est > Base - 1 THEN Base - 1 ELSE est
        Fits(c) == c >= 0 /\ BCmp(BMulSmall(d, c), rb) <= 0
    IN  IF Fits(hat) THEN hat ELSE IF Fits(hat - 1) THEN hat - 1 ELSE hat - 2

\* long division in base 2^15: <<quotient limbs, most significant first,
\* remainder>> of r * Base^steps by d
RECURSIVE LongDiv(_, _, _)
LongDiv(r, d, steps) ==
    IF steps = 0 THEN <<<<>>, r>>
    ELSE LET rb   == BUp(r, 1)
             c    == QDigit(rb, d)
             rest == LongDiv(BTup(BSub(rb, BMulSmall(d, c))), d, steps - 1)
         IN  <<<<c>> \o rest[1], rest[2]>>

\* numpy true division of float64 scalars or Series elements: division by
\* zero yields inf or nan (with a RuntimeWarning), never an exception
FDiv(a, b) ==
    IF a.k = "nan" \/ b.k = "nan" THEN NaN
    ELSE IF a.k = "inf" THEN (IF b.k = "inf" THEN NaN ELSE Inf)
    ELSE IF b.k = "inf" THEN FZero
    ELSE IF IsZero(b) THEN (IF IsZero(a) THEN NaN ELSE Inf)
    ELSE IF IsZero(a) THEN FZero
    ELSE LET n  == BShl(a.m, 7)
             d  == BShl(b.m, 7)
             q0 == IF BCmp(n, d) >= 0 THEN 1 ELSE 0
             r0 == IF q0 = 1 THEN BSub(n, d) ELSE n
             qr == LongDiv(BTup(r0), BTup(d), 4)
             q  == <<qr[1][4], qr[1][3], qr[1][2], qr[1][1], q0, 0, 0, 0>>
         IN  FRound(q, a.e - b.e - 60, qr[2] # BZero)

FMul(a, b) ==
    IF a.k = "nan" \/ b.k = "nan" THEN NaN
    ELSE IF a.k = "inf" \/ b.k = "inf"
    THEN (IF IsZero(a) \/ IsZero(b) THEN NaN ELSE Inf)
    ELSE IF IsZero(a) \/ IsZero(b) THEN FZero
    ELSE FRound(BMul(a.m, b.m), a.e + b.e, FALSE)

FAdd(a, b) ==
    IF a.k = "nan" \/ b.k = "nan" THEN NaN
    ELSE IF a.k = "inf" \/ b.k = "inf" THEN Inf
    ELSE IF IsZero(a) THEN b
    ELSE IF IsZero(b) THEN a
    ELSE LET hi == IF a.e >= b.e THEN a ELSE b
             lo == IF a.e >= b.e THEN b ELSE a
             d  == hi.e - lo.e
         IN  IF d > 60 THEN hi
             ELSE FRound(BAdd(BShl(hi.m, d), lo.m), lo.e, FALSE)

\* Python's '.1f' of a float64: the exact binary value rounded half-even to
\* one decimal, returned in tenths ("inf" and "nan" print as such)
Format1f(x) ==
    IF x.k # "fin" THEN [k |-> x.k]
    ELSE IF IsZero(x) THEN [k |-> "fin", tenths |-> 0]
    ELSE LET n == BMulSmall(x.m, 10)
         IN  IF x.e >= 0 THEN [k |-> "fin", tenths |-> BInt(BShl(n, x.e))]
             ELSE IF -x.e > 100 THEN [k |-> "fin", tenths |-> 0]
             ELSE LET s    == -x.e
                      q    == BShr(n, s)
                      rem  == BSub(n, BShl(q, s))
                      half == BShl(BN(1), s - 1)
                      c    == BCmp(rem, half)
                      up   == c > 0 \/ (c = 0 /\ BOdd(q))
                  IN  [k |-> "fin", tenths |-> BInt(q) + (IF up THEN 1 ELSE 0)]

(***************************************************************************)
(* The input file.  A cell of an integer column is its integer; a cell of  *)
(* a float column is a decimal with one fractional digit, held in tenths.  *)
(***************************************************************************)
MaxRows == 3

Columns == {"GridSize", "ActualTime", "StdDev", "ActualComparisons",
            "TheoreticalComplexity"}

FloatColumns == {"ActualTime", "StdDev"}

Row(g, t, sd, c, th) ==
    [GridSize |-> g, ActualTime |-> t, StdDev |-> sd,
     ActualComparisons |-> c, TheoreticalComplexity |-> th]

\* 8,10.0,0.5,100,96 / 16,45.0,2.0,500,512 / 32,200.0,8.0,2500,2560
ExampleRows == <<Row(8, 100, 5, 100, 96), Row(16, 450, 20, 500, 512),
                 Row(32, 2000, 80, 2500, 2560)>>

RowValues == {ExampleRows[1], ExampleRows[2], ExampleRows[3],
              Row(7, 10, 1, 48, 49), Row(2, 30, 0, 5, 0), Row(1, 0, 0, 0, 0)}

Tables == UNION {[1..n -> RowValues] : n \in 0..MaxRows}

Headers == {Columns} \cup {Columns \ {c} : c \in Columns}

Project(r, h) == [c \in h |-> r[c]]

CsvFiles == {[k |-> "missing"]} \cup
            {[k |-> "file", header |-> h,
              rows |-> [i \in 1..Len(t) |-> Project(t[i], h)]] :
                 h \in Headers, t \in Tables}

\* the C parser's conversion of a one-decimal literal: the digits as a
\* float64, divided by 10.0
ParseFloat(tenths) == FDiv(FInt(tenths), FInt(10))

\* pd.read_csv: one Series per header column, int64 or float64
ReadCsvFrame(f) ==
    [c \in f.header |->
        [i \in 1..Len(f.rows) |->
            IF c \in FloatColumns THEN ParseFloat(f.rows[i][c]) ELSE f.rows[i][c]]]

NRows(d) == LET c == CHOOSE x \in DOMAIN d : TRUE IN Len(d[c])

\* mutant: the scale factor anchored on the last row, .iloc[-1]
TheoreticalNormalizedLastRow(d) ==
    LET n     == NRows(d)
        scale == FDiv(d.ActualTime[n], FInt(d.TheoreticalComplexity[n]))
    IN  [i \in 1..n |-> FMul(FInt(d.TheoreticalComplexity[i]), scale)]

\* mutant: a scale factor per row, without .iloc[0]
TheoreticalNormalizedPerRow(d) ==
    [i \in 1..NRows(d) |->
        FMul(FInt(d.TheoreticalComplexity[i]),
             FDiv(d.ActualTime[i], FInt(d.TheoreticalComplexity[i])))]

\* df['TheoreticalComplexity'] * (df['ActualTime'].iloc[0] /
\*                                df['TheoreticalComplexity'].iloc[0])
TheoreticalNormalized(d) ==
    LET scale == FDiv(d.ActualTime[1], FInt(d.TheoreticalComplexity[1]))
    IN  [i \in 1..NRows(d) |-> FMul(FInt(d.TheoreticalComplexity[i]), scale)]

\* mutant: the ratios without the factor 100
RatiosFraction(d) ==
    [i \in 1..NRows(d) |->
        FDiv(FInt(d.ActualComparisons[i]), FInt(d.TheoreticalComplexity[i]))]

\* df['ActualComparisons'] / df['TheoreticalComplexity'] * 100
Ratios(d) ==
    [i \in 1..NRows(d) |->
        FMul(FDiv(FInt(d.ActualComparisons[i]), FInt(d.TheoreticalComplexity[i])),
             FInt(100))]

\* the sum of the first n elements, NaN counted as 0: numpy adds fewer than
\* 8 elements left to right from 0.0
RECURSIVE NanSum(_, _)
NanSum(v, n) ==
    IF n = 0 THEN FZero
    ELSE FAdd(NanSum(v, n - 1), IF v[n].k = "nan" THEN FZero ELSE v[n])

\* Series.mean() with skipna=True: the sum of the non-NaN elements divided
\* by their count, NaN when there is none
Mean(v) ==
    LET count == Cardinality({i \in 1..Len(v) : v[i].k # "nan"})
    IN  IF count = 0 THEN NaN ELSE FDiv(NanSum(v, Len(v)), FInt(count))

RECURSIVE ColumnSum(_, _)
ColumnSum(col, n) == IF n = 0 THEN 0 ELSE ColumnSum(col, n - 1) + col[n]

\* mutant: the ratio of the column sums
EfficiencyRatioOfSums(d) ==
    FMul(FDiv(FInt(ColumnSum(d.ActualComparisons, NRows(d))),
              FInt(ColumnSum(d.TheoreticalComplexity, NRows(d)))), FInt(100))

\* mutant: .iloc[0] in place of .mean()
EfficiencyFirstRow(d) == Ratios(d)[1]

Efficiency(d) == Mean(Ratios(d))

(***************************************************************************)
(* The script, one action per statement.                                   *)
(***************************************************************************)
VARIABLES csv, pc, df, fig, theoretical_normalized, efficiency, png, stdout,
          shown, err, trace

vars == <<csv, pc, df, fig, theoretical_normalized, efficiency, png, stdout,
          shown, err, trace>>

Unbound == [k |-> "unbound"]

Init ==
    /\ csv \in CsvFiles
    /\ pc = "read_csv"
    /\ df = <<>>
    /\ fig = [k |-> "none"]
    /\ theoretical_normalized = <<>>
    /\ efficiency = Unbound
    /\ png = <<>>
    /\ stdout = <<>>
    /\ shown = FALSE
    /\ err = "none"
    /\ trace = <<>>

\* an uncaught exception ends the script
Raise(exc) ==
    /\ pc' = "aborted"
    /\ err' = exc
    /\ trace' = Append(trace, "raise")

Goto(next) ==
    /\ pc' = next
    /\ err' = err
    /\ trace' = Append(trace, pc)

\* line 5
ReadCsv ==
    /\ pc = "read_csv"
    /\ IF csv.k = "missing"
       THEN Raise("FileNotFoundError") /\ df' = df
       ELSE Goto("subplots") /\ df' = ReadCsvFrame(csv)
    /\ UNCHANGED <<csv, fig, theoretical_normalized, efficiency, png, stdout, shown>>

\* line 7
Subplots ==
    /\ pc = "subplots"
    /\ fig' = [k |-> "figure", ax1 |-> <<>>, ax2 |-> <<>>, text |-> <<>>]
    /\ Goto("errorbar")
    /\ UNCHANGED <<csv, df, theoretical_normalized, efficiency, png, stdout, shown>>

\* lines 9-10
Errorbar ==
    /\ pc = "errorbar"
    /\ IF {"GridSize", "ActualTime", "StdDev"} \subseteq DOMAIN df
       THEN /\ fig' = [fig EXCEPT !.ax1 = Append(@,
                          [kind |-> "errorbar", x |-> df.GridSize,
                           y |-> df.ActualTime, yerr |-> df.StdDev])]
            /\ Goto("normalize")
       ELSE Raise("KeyError") /\ fig' = fig
    /\ UNCHANGED <<csv, df, theoretical_normalized, efficiency, png, stdout, shown>>

\* mutant: an empty table yields an empty series instead of an IndexError
NormalizeUnchecked ==
    /\ pc = "normalize"
    /\ IF "TheoreticalComplexity" \notin DOMAIN df
       THEN Raise("KeyError") /\ theoretical_normalized' = theoretical_normalized
       ELSE /\ theoretical_normalized' =
                  (IF NRows(df) = 0 THEN <<>> ELSE TheoreticalNormalized(df))
            /\ Goto("plot_theoretical")
    /\ UNCHANGED <<csv, df, fig, efficiency, png, stdout, shown>>

\* line 12
Normalize ==
    /\ pc = "normalize"
    /\ IF "TheoreticalComplexity" \notin DOMAIN df
       THEN Raise("KeyError") /\ theoretical_normalized' = theoretical_normalized
       ELSE IF NRows(df) = 0
       THEN Raise("IndexError") /\ theoretical_normalized' = theoretical_normalized
       ELSE /\ theoretical_normalized' = TheoreticalNormalized(df)
            /\ Goto("plot_theoretical")
    /\ UNCHANGED <<csv, df, fig, efficiency, png, stdout, shown>>

\* lines 13-14
PlotTheoretical ==
    /\ pc = "plot_theoretical"
    /\ fig' = [fig EXCEPT !.ax1 = Append(@,
                  [kind |-> "plot", x |-> df.GridSize, y |-> theoretical_normalized])]
    /\ Goto("style_ax1")
    /\ UNCHANGED <<csv, df, theoretical_normalized, efficiency, png, stdout, shown>>

\* lines 16-20
StyleAx1 ==
    /\ pc = "style_ax1"
    /\ Goto("loglog_actual")
    /\ UNCHANGED <<csv, df, fig, theoretical_normalized, efficiency, png, stdout, shown>>

\* lines 22-23
LoglogActual ==
    /\ pc = "loglog_actual"
    /\ IF "ActualComparisons" \in DOMAIN df
       THEN /\ fig' = [fig EXCEPT !.ax2 = Append(@,
                          [kind |-> "loglog", x |-> df.GridSize,
                           y |-> df.ActualComparisons])]
            /\ Goto("loglog_theoretical")
       ELSE Raise("KeyError") /\ fig' = fig
    /\ UNCHANGED <<csv, df, theoretical_normalized, efficiency, png, stdout, shown>>

\* lines 24-25
LoglogTheoretical ==
    /\ pc = "loglog_theoretical"
    /\ fig' = [fig EXCEPT !.ax2 = Append(@,
                  [kind |-> "loglog", x |-> df.GridSize,
                   y |-> df.TheoreticalComplexity])]
    /\ Goto("style_ax2")
    /\ UNCHANGED <<csv, df, theoretical_normalized, efficiency, png, stdout, shown>>

\* lines 27-31
StyleAx2 ==
    /\ pc = "style_ax2"
    /\ Goto("efficiency")
    /\ UNCHANGED <<csv, df, fig, theoretical_normalized, efficiency, png, stdout, shown>>

\* line 33
ComputeEfficiency ==
    /\ pc = "efficiency"
    /\ efficiency' = Efficiency(df)
    /\ Goto("figtext")
    /\ UNCHANGED <<csv, df, fig, theoretical_normalized, png, stdout, shown>>

\* lines 34-37
Figtext ==
    /\ pc = "figtext"
    /\ fig' = [fig EXCEPT !.text = Append(@, Format1f(efficiency))]
    /\ Goto("layout")
    /\ UNCHANGED <<csv, df, theoretical_normalized, efficiency, png, stdout, shown>>

\* lines 39-40
Layout ==
    /\ pc = "layout"
    /\ Goto("savefig")
    /\ UNCHANGED <<csv, df, fig, theoretical_normalized, efficiency, png, stdout, shown>>

\* mutant: a failed write is swallowed and the script goes on
SavefigSwallow ==
    /\ pc = "savefig"
    /\ \E writable \in BOOLEAN :
          png' = IF writable THEN Append(png, fig) ELSE png
    /\ Goto("print")
    /\ UNCHANGED <<csv, df, fig, theoretical_normalized, efficiency, stdout, shown>>

\* line 41: the working directory is writable or not
Savefig ==
    /\ pc = "savefig"
    /\ \E writable \in BOOLEAN :
          IF writable
          THEN png' = Append(png, fig) /\ Goto("print")
          ELSE png' = png /\ Raise("OSError")
    /\ UNCHANGED <<csv, df, fig, theoretical_normalized, efficiency, stdout, shown>>

\* line 42
PrintSaved ==
    /\ pc = "print"
    /\ stdout' = Append(stdout, "plot saved as dc_complexity_analysis.png")
    /\ Goto("show")
    /\ UNCHANGED <<csv, df, fig, theoretical_normalized, efficiency, png, shown>>

\* line 43
Show ==
    /\ pc = "show"
    /\ shown' = TRUE
    /\ Goto("done")
    /\ UNCHANGED <<csv, df, fig, theoretical_normalized, efficiency, png, stdout>>

Next ==
    \/ ReadCsv
    \/ Subplots
    \/ Errorbar
    \/ Normalize
    \/ PlotTheoretical
    \/ StyleAx1
    \/ LoglogActual
    \/ LoglogTheoretical
    \/ StyleAx2
    \/ ComputeEfficiency
    \/ Figtext
    \/ Layout
    \/ Savefig
    \/ PrintSaved
    \/ Show

Spec == Init /\ [][Next]_vars
(***************************************************************************)
(* Properties.                                                             *)
(***************************************************************************)
HasFile == csv.k = "file"

FullHeader == HasFile /\ csv.header = Columns

Normalized == theoretical_normalized # <<>>

EfficiencyBound == efficiency # Unbound

RowOrders(n) == {p \in [1..n -> 1..n] : \A i, j \in 1..n : p[i] = p[j] => i = j}

Permute(d, p) == [c \in DOMAIN d |-> [i \in 1..NRows(d) |-> d[c][p[i]]]]

\* |x - y| * 2^k <= y * num, on the exact values of two float64
RelClose(x, y, num, k) ==
    IF x.k # "fin" \/ y.k # "fin" THEN x = y
    ELSE IF IsZero(x) \/ IsZero(y) THEN x = y
    ELSE IF x.e - y.e > 2 \/ y.e - x.e > 2 THEN FALSE
    ELSE LET emin == IF x.e < y.e THEN x.e ELSE y.e
             bx   == BShl(x.m, x.e - emin)
             by   == BShl(y.m, y.e - emin)
             diff == IF BCmp(bx, by) >= 0 THEN BSub(bx, by) ELSE BSub(by, bx)
         IN  BCmp(diff, BShr(BMulSmall(by, num), k)) <= 0

\* the product of the TheoreticalComplexity cells of rows 1..n except row skip
RECURSIVE ProdT(_, _, _)
ProdT(d, n, skip) ==
    IF n = 0 THEN BN(1)
    ELSE IF n = skip THEN ProdT(d, n - 1, skip)
    ELSE BMulSmall(ProdT(d, n - 1, skip), d.TheoreticalComplexity[n])

\* sum over rows i <= n of ActualComparisons[i] * prod of the other rows'
\* TheoreticalComplexity: the numerator of sum(C[i] / T[i]) over prod(T)
RECURSIVE CrossSum(_, _)
CrossSum(d, n) ==
    IF n = 0 THEN BZero
    ELSE BAdd(CrossSum(d, n - 1),
              BMulSmall(ProdT(d, NRows(d), n), d.ActualComparisons[n]))

\* x is the exact rational mean of C[i] / T[i] * 100 up to a relative
\* (n + 3) * 2^-53: one rounding per division, product, addition and the
\* final division
NearExactMean(x, d) ==
    LET n == NRows(d)
        s == CrossSum(d, n)
    IN  IF s = BZero THEN IsZero(x)
        ELSE /\ x.k = "fin"
             /\ ~IsZero(x)
             /\ x.e < 0
             /\ -x.e < 60
             /\ LET lhs  == BMulSmall(BMul(ProdT(d, n, 0), x.m), n)
                    rhs  == BShl(BMulSmall(s, 100), -x.e)
                    diff == IF BCmp(lhs, rhs) >= 0 THEN BSub(lhs, rhs)
                                                   ELSE BSub(rhs, lhs)
                IN  BCmp(diff, BShr(BMulSmall(rhs, n + 3), 53)) <= 0

RECURSIVE LeftSum(_, _)
LeftSum(v, n) == IF n = 1 THEN v[1] ELSE FAdd(LeftSum(v, n - 1), v[n])

NoZeroTheoretical ==
    /\ FullHeader
    /\ \A i \in 1..Len(csv.rows) : csv.rows[i].TheoreticalComplexity # 0

\* C1: a table whose first row has TheoreticalComplexity 0 makes the run
\* fail at the normalisation: no normalised series is produced and no image
\* is saved.
C1_ZeroAnchorFails ==
    (/\ HasFile
     /\ "TheoreticalComplexity" \in csv.header
     /\ Len(csv.rows) >= 1
     /\ csv.rows[1].TheoreticalComplexity = 0)
    => ~Normalized /\ png = <<>>

\* C2: a table with TheoreticalComplexity 0 in any row makes the efficiency
\* computation fail: no efficiency value is produced and none reaches the
\* caption.
C2_ZeroDenominatorFails ==
    (/\ FullHeader
     /\ \E i \in 1..Len(csv.rows) : csv.rows[i].TheoreticalComplexity = 0)
    => ~EfficiencyBound /\ (fig.k = "figure" => fig.text = <<>>)

ExampleCsv == [k |-> "file", header |-> Columns, rows |-> ExampleRows]

\* C3 as stated: on the three example rows the run can only fail at the
\* save, a completed run has written the image, and the caption reads 99.1.
C3_ExampleCaption991 ==
    csv = ExampleCsv =>
        /\ pc = "aborted" => err = "OSError"
        /\ pc = "done" => Len(png) = 1 /\ png[1].text = <<[k |-> "fin", tenths |-> 991]>>

\* C3 amended: on the three example rows the run can only fail at the save,
\* a completed run has written the image, the efficiency is the mean of
\* 100/96*100, 500/512*100 and 2500/2560*100, and the caption reads 99.8.
C3_ExampleCaption998 ==
    csv = ExampleCsv =>
        /\ pc = "aborted" => err = "OSError"
        /\ EfficiencyBound => NearExactMean(efficiency, df)
        /\ pc = "done" => Len(png) = 1 /\ png[1].text = <<[k |-> "fin", tenths |-> 998]>>

C3_Witness ==
    /\ csv = ExampleCsv
    /\ pc = "done"
    /\ png = <<fig>>
    /\ fig.text = <<[k |-> "fin", tenths |-> 998]>>

\* C4: with at least one row and no zero TheoreticalComplexity, the
\* efficiency is the float64 mean of the per-row values
\* ActualComparisons[i] / TheoreticalComplexity[i] * 100, summed left to
\* right and divided by the row count, and it is the exact arithmetic mean of
\* those ratios up to the rounding of these operations.
C4_MeanOfRatios ==
    (EfficiencyBound /\ NoZeroTheoretical) =>
        LET n == Len(csv.rows)
            v == [i \in 1..n |->
                    FMul(FDiv(FInt(csv.rows[i].ActualComparisons),
                              FInt(csv.rows[i].TheoreticalComplexity)), FInt(100))]
        IN  /\ efficiency = FDiv(LeftSum(v, n), FInt(n))
            /\ NearExactMean(efficiency, df)

C4_Witness ==
    /\ EfficiencyBound
    /\ NoZeroTheoretical
    /\ Len(csv.rows) = 3
    /\ csv.rows[1] # csv.rows[2]
    /\ csv.rows[2] # csv.rows[3]
    /\ efficiency.k = "fin"

\* C5 as stated: with a non-zero first TheoreticalComplexity, the first
\* element of the normalised series equals the first ActualTime exactly.
C5_FirstEqualsActualExactly ==
    (Normalized /\ csv.rows[1].TheoreticalComplexity # 0)
        => theoretical_normalized[1] = df.ActualTime[1]

\* C5 amended: with a non-zero first TheoreticalComplexity, the first
\* element of the normalised series equals the first ActualTime up to the
\* rounding of the division and the multiplication: a relative error of at
\* most 2^-52.
C5_FirstNearActual ==
    (Normalized /\ csv.rows[1].TheoreticalComplexity # 0)
        => RelClose(theoretical_normalized[1], df.ActualTime[1], 1, 52)

C5_Witness ==
    /\ Normalized
    /\ csv.rows[1].TheoreticalComplexity # 0
    /\ theoretical_normalized[1] # df.ActualTime[1]
    /\ RelClose(theoretical_normalized[1], df.ActualTime[1], 1, 52)

\* C6: the normalised series has the length of the table, and element i is
\* TheoreticalComplexity[i] times one scale factor, ActualTime[0] /
\* TheoreticalComplexity[0], taken from row 0 alone.
C6_SingleScaleFactor ==
    (Normalized /\ csv.rows[1].TheoreticalComplexity # 0) =>
        LET factor == FDiv(ParseFloat(csv.rows[1].ActualTime),
                           FInt(csv.rows[1].TheoreticalComplexity))
        IN  /\ Len(theoretical_normalized) = Len(csv.rows)
            /\ \A i \in 1..Len(csv.rows) :
                  theoretical_normalized[i] =
                      FMul(FInt(csv.rows[i].TheoreticalComplexity), factor)

C6_Witness ==
    /\ Normalized
    /\ Len(theoretical_normalized) = 3
    /\ csv.rows[1].TheoreticalComplexity # 0
    /\ csv.rows[2] # csv.rows[1]
    /\ theoretical_normalized[2] # theoretical_normalized[1]
    /\ theoretical_normalized[2].k = "fin"

\* C7 as stated: the efficiency of every permutation of the rows is the
\* same value.
C7_OrderInvariantExactly ==
    (EfficiencyBound /\ pc = "figtext") =>
        \A p \in RowOrders(NRows(df)) : Efficiency(Permute(df, p)) = efficiency

\* C7 amended: the efficiency of every permutation of the n rows is the same
\* value up to the rounding of the sum: the two differ by a relative
\* n * 2^-51 at most (and are both inf, or both NaN, together).
C7_OrderInvariantNear ==
    (EfficiencyBound /\ pc = "figtext") =>
        \A p \in RowOrders(NRows(df)) :
            RelClose(Efficiency(Permute(df, p)), efficiency, NRows(df), 51)

C7_Witness ==
    /\ EfficiencyBound
    /\ pc = "figtext"
    /\ \E p \in RowOrders(NRows(df)) : Efficiency(Permute(df, p)) # efficiency

C9_MissingColumnFailsInLoad ==
    (HasFile /\ csv.header # Columns) =>
        /\ pc \in {"read_csv", "aborted"}
        /\ fig.k = "none"
        /\ ~Normalized

StepOrder == <<"read_csv", "subplots", "errorbar", "normalize", "plot_theoretical",
               "style_ax1", "loglog_actual", "loglog_theoretical", "style_ax2",
               "efficiency", "figtext", "layout", "savefig", "print", "show">>

\* C10: the statements run in source order; an exception is the last event
\* of a run; the image is written at most once; the confirmation line is
\* printed only after the image was written, and never in a run that failed.
C10_OrderAndAbort ==
    /\ Len(trace) <= Len(StepOrder)
    /\ \A i \in 1..Len(trace) :
          \/ trace[i] = StepOrder[i]
          \/ trace[i] = "raise" /\ i = Len(trace) /\ pc = "aborted"
    /\ (pc = "aborted") = (err # "none")
    /\ pc = "aborted" => trace # <<>> /\ trace[Len(trace)] = "raise"
    /\ Len(png) <= 1
    /\ Len(stdout) <= 1
    /\ stdout # <<>> => Len(png) = 1 /\ err = "none"
    /\ shown => stdout # <<>>
    /\ (Len(png) = 1) = (Len(trace) >= 13 /\ trace[13] = "savefig")
    /\ EfficiencyBound => Normalized

C10_Witness ==
    /\ pc = "aborted"
    /\ err = "OSError"
    /\ Len(trace) = 13
    /\ png = <<>>
    /\ stdout = <<>>
====
